---- MODULE Spec2Model ----
(***************************************************************************)
(* Model of twitchrecorder.py: the polling controller thread               *)
(* (check_stream_continuously / check_user), the startup sweep of the main *)
(* thread (process_recorded_files) and the post-processing of one file     *)
(* (process_recorded_file / ffmpeg_copy_and_fix_errors).                   *)
(***************************************************************************)
EXTENDS Integers, Sequences, FiniteSets, TLC

(* ------------------------------ bounds --------------------------------- *)
\* number of status checks the model follows
MaxPolls == 2
\* number of files left in the raw directory by an earlier run
MaxLeftover == 1
\* number of leftover files when the sweep is followed on its own
MaxSweepFiles == 3
\* longest channel login and longest stream title of the file name construction
MaxUserLen == 1
MaxTitleLen == 2

(* ------------------------- program constants --------------------------- *)
\* self.refresh, the seconds slept between polls
refresh == 15
\* time.sleep(2) on the fatal path
short_backoff == 2

\* class TwitchResponseStatus
ONLINE == "ONLINE"
OFFLINE == "OFFLINE"
NOT_FOUND == "NOT_FOUND"
UNAUTHORIZED == "UNAUTHORIZED"
ERROR == "ERROR"
TwitchResponseStatus == {ONLINE, OFFLINE, NOT_FOUND, UNAUTHORIZED, ERROR}

\* Python's None, and an optional value as a sequence of length 0 or 1
None == <<>>
Some(x) == <<x>>

(* ----------------------------- environment ----------------------------- *)
\* stream titles the platform may report
Titles == {"Foo", "Bar"}
\* the `data` array of a successful reply: stream records, here their titles
DataArrays == {<<>>, <<"Foo">>, <<"Foo", "Bar">>}

\* What requests.get / raise_for_status / r.json() can produce for one
\* status request.  kind is the way the call ends, code the HTTP status of
\* the response attached to it (0: no response at all).
\*   json             2xx, body is a JSON object with a `data` array
\*   null             2xx, body is the JSON value null
\*   nodata           2xx, body is a JSON object without `data`
\*   HTTPError        raise_for_status() raised for a 4xx/5xx response
\*   TooManyRedirects raised with the last 3xx response attached
\*   ConnectionError  timeout or connection failure, no response attached
Replies ==
    [kind : {"json"}, code : {200}, data : DataArrays]
    \cup [kind : {"null", "nodata"}, code : {200}, data : {<<>>}]
    \cup [kind : {"HTTPError"}, code : {401, 404, 500}, data : {<<>>}]
    \cup [kind : {"TooManyRedirects"}, code : {302}, data : {<<>>}]
    \cup [kind : {"ConnectionError"}, code : {0}, data : {<<>>}]

\* the reply raises a requests.exceptions.RequestException
IsRequestException(r) == r.kind \in {"HTTPError", "TooManyRedirects", "ConnectionError"}

\* outcome of one requests.post to the webhook: it returns a response (of
\* whatever HTTP status, which the code does not look at) or it raises
\* (connection failure, invalid URL)
Deliveries == {"returned", "raised"}

\* outcome of the identity endpoint on a refresh
RefreshOutcomes == {"ok", "raised"}

\* names of the files of the raw directory: a time stamp and a title.  The
\* files of earlier runs carry stamps below 1, the captures of this run the
\* number of the capture.
LeftoverFiles == {<<0 - i, "Old">> : i \in 1..MaxLeftover}

\* the raw directory when the sweep is followed on its own
SweepFiles == {<<0 - i, "Old">> : i \in 1..MaxSweepFiles}

\* characters are code points.  The titles and logins are drawn from:
\* a Z 7, space - _ . (kept by the filter), / (stripped), and the non-ASCII
\* e-acute (U+00E9, a letter) and superscript two (U+00B2, a digit)
Alphabet == {97, 90, 55, 32, 45, 95, 46, 47, 233, 178}
\* the strings over the alphabet of length at most n
Strings(n) == UNION {[1..k -> Alphabet] : k \in 0..n}

(* ------------------------------- state --------------------------------- *)
VARIABLES
    pc,                 \* controller thread: check, dispatch, capture, recorded, exited, crashed
    status,             \* status returned by the last check_user
    info,               \* info returned by the last check_user
    access_token,       \* self.access_token (serial number of the issued token)
    stream_start_time,  \* self.stream_start_time, None or a date
    disable_ffmpeg,     \* self.disable_ffmpeg
    recorded_filename,  \* file name of the running / last capture
    recorded,           \* files in <root>/recorded/<username>
    processed,          \* destinations written completely in <root>/processed/<username>
    mpc,                \* main thread: scan, loop, done
    video_list,         \* files the sweep still has to process
    exc,                \* the uncaught exception that ended the controller thread
    polls,              \* history: number of status checks issued
    lastReply,          \* history: reply to the last status check
    rejected,           \* history: tokens that were answered with HTTP 401
    notes,              \* history: kinds of the webhook posts issued, in order
    delivery,           \* history: outcome of the last webhook post
    refreshes,          \* history: number of fetch_access_token calls after construction
    captures,           \* history: number of capture processes spawned
    spawns,             \* history: capture processes spawned in the current session
    sessionOnline,      \* history: ONLINE results returned in the current session
    slept,              \* history: seconds of the last time.sleep of the controller
    removed,            \* history: raw files deleted by post-processing
    handed,             \* history: <<thread, file>> pairs passed to process_recorded_file
    live,               \* history: <<thread, file>> processed while the file's capture ran
    listed,             \* history: the files the sweep's listdir returned
    running,            \* history: capture processes spawned and not yet exited
    fpc,                \* file name construction: off, build, built, cleaned, twice
    username,           \* self.username, as code points
    title,              \* channel.get("title"), as code points
    filename,           \* the file name before the character filter
    cleaned,            \* the file name after the character filter
    cleaned2            \* the cleaned file name filtered once more

ctlVars == <<pc, status, info, access_token, stream_start_time, recorded_filename, exc>>
fsVars == <<recorded, processed, removed, handed, live>>
sweepVars == <<mpc, video_list, listed>>
histVars == <<polls, lastReply, rejected, notes, delivery, refreshes, captures,
              spawns, sessionOnline, slept, running>>
nameVars == <<fpc, username, title, filename, cleaned, cleaned2>>
vars == <<ctlVars, disable_ffmpeg, fsVars, sweepVars, histVars, nameVars>>

\* no reply yet
NoReply == [kind |-> "none", code |-> 0, data |-> <<>>]

\* TwitchRecorder.__init__ followed by the option loop of main(): the token
\* was fetched, no session, --disable-ffmpeg given or not
InitRecorder ==
    /\ pc = "check"
    /\ status = "unset"
    /\ info = None
    /\ access_token = 1
    /\ stream_start_time = None
    /\ disable_ffmpeg \in BOOLEAN
    /\ recorded_filename = None
    /\ processed = {}
    /\ mpc = "scan"
    /\ video_list = <<>>
    /\ exc = "none"
    /\ polls = 0
    /\ lastReply = NoReply
    /\ rejected = {}
    /\ notes = <<>>
    /\ delivery = "none"
    /\ refreshes = 0
    /\ captures = 0
    /\ spawns = 0
    /\ sessionOnline = 0
    /\ slept = 0
    /\ removed = {}
    /\ handed = {}
    /\ live = {}
    /\ listed = {}
    /\ running = 0

\* the character-level construction of the file name is not followed
NamesOff ==
    /\ fpc = "off"
    /\ username = <<>>
    /\ title = <<>>
    /\ filename = <<>>
    /\ cleaned = <<>>
    /\ cleaned2 = <<>>

\* the program at the start of run(): the raw directory holds what an
\* earlier run left
Init ==
    /\ InitRecorder
    /\ recorded \in SUBSET LeftoverFiles
    /\ NamesOff

(* ------------------------------ check_user ----------------------------- *)
\* bool(e.response): None is falsy, and a requests.Response is truthy
\* exactly when it is `ok`, i.e. when its status is below 400
ResponseTruthy(r) == r.code # 0 /\ r.code < 400

\* Classify with the status initialised to OFFLINE instead of ERROR
Classify_DefaultOffline(r) ==
    IF IsRequestException(r)
    THEN IF ResponseTruthy(r)
         THEN IF r.code = 404 THEN NOT_FOUND
              ELSE IF r.code = 401 THEN UNAUTHORIZED
              ELSE OFFLINE
         ELSE OFFLINE
    ELSE IF r.kind = "null" \/ r.data = <<>> THEN OFFLINE ELSE ONLINE

\* the status check_user returns for a reply it returns for
Classify(r) ==
    IF IsRequestException(r)
    THEN IF ResponseTruthy(r)
         THEN IF r.code = 404 THEN NOT_FOUND
              ELSE IF r.code = 401 THEN UNAUTHORIZED
              ELSE ERROR
         ELSE ERROR
    ELSE IF r.kind = "null" \/ r.data = <<>> THEN OFFLINE ELSE ONLINE

\* the info check_user returns: the parsed body, None when the request failed
InfoOf(r) ==
    IF IsRequestException(r) \/ r.kind = "null" THEN None ELSE Some([data |-> r.data])

\* datetime.datetime.utcnow().strftime("%Y%m%d"): a non-empty string, here
\* the number of the poll that set it
UtcDate == Some(polls + 1)

\* one call of check_user at the top of the loop
check_user ==
    /\ pc = "check"
    /\ polls < MaxPolls
    /\ \E r \in Replies :
        /\ polls' = polls + 1
        /\ lastReply' = r
        /\ rejected' = IF r.kind = "HTTPError" /\ r.code = 401
                       THEN rejected \cup {access_token} ELSE rejected
        /\ IF r.kind = "nodata"
           THEN \* info["data"] raises KeyError, which no except clause catches
                /\ pc' = "crashed"
                /\ exc' = "KeyError"
                /\ UNCHANGED <<status, info, stream_start_time, sessionOnline>>
           ELSE /\ pc' = "dispatch"
                /\ status' = Classify(r)
                /\ info' = InfoOf(r)
                /\ stream_start_time' =
                       IF Classify(r) = ONLINE /\ stream_start_time = None
                       THEN UtcDate ELSE stream_start_time
                /\ sessionOnline' = IF Classify(r) = ONLINE
                                    THEN sessionOnline + 1 ELSE sessionOnline
                /\ exc' = exc
    /\ UNCHANGED <<access_token, recorded_filename, disable_ffmpeg, nameVars, fsVars, sweepVars,
                   notes, delivery, refreshes, captures, running, spawns, slept>>

(* ------------------------ check_stream_continuously -------------------- *)
\* send_discord_message: one requests.post, its exception is not caught
send_discord_message(kind, d) ==
    /\ notes' = Append(notes, kind)
    /\ delivery' = d

\* the thread ends with an uncaught exception
Raise(what) ==
    /\ pc' = "crashed"
    /\ exc' = what

\* status == NOT_FOUND: log, sleep(refresh)
HandleNotFound ==
    /\ pc' = "check"
    /\ slept' = refresh
    /\ UNCHANGED <<status, info, access_token, stream_start_time, recorded_filename, exc,
                   notes, delivery, refreshes, captures, running, spawns, sessionOnline>>

\* HandleError without the sys.exit(): the loop goes on after the back-off
HandleError_Retry ==
    \E d \in Deliveries :
        /\ send_discord_message("Error", d)
        /\ IF d = "raised"
           THEN Raise("webhook") /\ slept' = slept
           ELSE pc' = "check" /\ exc' = exc /\ slept' = short_backoff
        /\ UNCHANGED <<status, info, access_token, stream_start_time, recorded_filename,
                       refreshes, captures, running, spawns, sessionOnline>>

\* status == ERROR: notify, sleep(2), sys.exit()
HandleError ==
    \E d \in Deliveries :
        /\ send_discord_message("Error", d)
        /\ IF d = "raised"
           THEN Raise("webhook") /\ slept' = slept
           ELSE pc' = "exited" /\ exc' = exc /\ slept' = short_backoff
        /\ UNCHANGED <<status, info, access_token, stream_start_time, recorded_filename,
                       refreshes, captures, running, spawns, sessionOnline>>

\* HandleOffline that sends Stop but forgets to reset stream_start_time
HandleOffline_NoClear ==
    IF stream_start_time # None
    THEN \E d \in Deliveries :
            /\ send_discord_message("Stop", d)
            /\ IF d = "raised"
               THEN /\ Raise("webhook")
                    /\ UNCHANGED <<stream_start_time, spawns, sessionOnline, slept>>
               ELSE /\ stream_start_time' = stream_start_time
                    /\ spawns' = 0
                    /\ sessionOnline' = 0
                    /\ pc' = "check"
                    /\ exc' = exc
                    /\ slept' = refresh
            /\ UNCHANGED <<status, info, access_token, recorded_filename, refreshes, captures, running>>
    ELSE /\ pc' = "check"
         /\ slept' = refresh
         /\ UNCHANGED <<status, info, access_token, stream_start_time, recorded_filename, exc,
                        notes, delivery, refreshes, captures, running, spawns, sessionOnline>>

\* status == OFFLINE: Stop notification and end of the session when one is
\* open, sleep(refresh)
HandleOffline ==
    IF stream_start_time # None
    THEN \E d \in Deliveries :
            /\ send_discord_message("Stop", d)
            /\ IF d = "raised"
               THEN /\ Raise("webhook")
                    /\ UNCHANGED <<stream_start_time, spawns, sessionOnline, slept>>
               ELSE /\ stream_start_time' = None
                    /\ spawns' = 0
                    /\ sessionOnline' = 0
                    /\ pc' = "check"
                    /\ exc' = exc
                    /\ slept' = refresh
            /\ UNCHANGED <<status, info, access_token, recorded_filename, refreshes, captures, running>>
    ELSE /\ pc' = "check"
         /\ slept' = refresh
         /\ UNCHANGED <<status, info, access_token, stream_start_time, recorded_filename, exc,
                        notes, delivery, refreshes, captures, running, spawns, sessionOnline>>

\* status == UNAUTHORIZED: fetch_access_token (raise_for_status not caught),
\* store the new token, notify, no sleep
HandleUnauthorized ==
    \E o \in RefreshOutcomes, d \in Deliveries :
        /\ refreshes' = refreshes + 1
        /\ IF o = "raised"
           THEN /\ Raise("refresh")
                /\ UNCHANGED <<access_token, notes, delivery>>
           ELSE /\ access_token' = access_token + 1
                /\ send_discord_message("Error", d)
                /\ IF d = "raised" THEN Raise("webhook") ELSE pc' = "check" /\ exc' = exc
        /\ UNCHANGED <<status, info, stream_start_time, recorded_filename,
                       captures, running, spawns, sessionOnline, slept>>

\* Filename with the title of the last record instead of the first
Filename_LastRecord(n, i) == Some(<<n, i[1].data[Len(i[1].data)]>>)

\* the file name built in the ONLINE branch: time stamp and the title of the
\* first record
Filename(n, i) == Some(<<n, Head(i[1].data)>>)

\* HandleOnline that starts the capture tool without waiting for its exit
HandleOnline_NoBlock ==
    \E d \in Deliveries :
        /\ send_discord_message("Start", d)
        /\ IF d = "raised"
           THEN /\ Raise("webhook")
                /\ UNCHANGED <<recorded_filename, captures, running, spawns>>
           ELSE /\ captures' = captures + 1
                /\ spawns' = spawns + 1
                /\ running' = running + 1
                /\ recorded_filename' = Filename(captures + 1, info)
                /\ pc' = "check"
                /\ exc' = exc
        /\ UNCHANGED <<status, info, access_token, stream_start_time,
                       refreshes, sessionOnline, slept>>

\* status == ONLINE: Start notification, file name, subprocess.call of the
\* capture tool, on which the thread blocks
HandleOnline ==
    \E d \in Deliveries :
        /\ send_discord_message("Start", d)
        /\ IF d = "raised"
           THEN /\ Raise("webhook")
                /\ UNCHANGED <<recorded_filename, captures, running, spawns>>
           ELSE /\ captures' = captures + 1
                /\ spawns' = spawns + 1
                /\ running' = running + 1
                /\ recorded_filename' = Filename(captures + 1, info)
                /\ pc' = "capture"
                /\ exc' = exc
        /\ UNCHANGED <<status, info, access_token, stream_start_time,
                       refreshes, sessionOnline, slept>>

\* the body of the loop after check_user returned.  check_user returns
\* NOT_FOUND or UNAUTHORIZED only for a truthy failed response with status
\* 404 or 401 (see ResponseTruthy), so these two arms are never entered.
\* sys.exit() on the ERROR arm runs in the controller thread and ends that
\* thread only: the main thread's sweep goes on.
check_stream_continuously ==
    /\ pc = "dispatch"
    /\ CASE status = NOT_FOUND -> HandleNotFound
         [] status = ERROR -> HandleError
         [] status = OFFLINE -> HandleOffline
         [] status = UNAUTHORIZED -> HandleUnauthorized
         [] status = ONLINE -> HandleOnline
    /\ UNCHANGED <<disable_ffmpeg, nameVars, fsVars, sweepVars, polls, lastReply, rejected>>

(* ------------------------ process_recorded_file ------------------------ *)
\* outcome of the external tool of one process_recorded_file call: the move
\* or the transcoder run succeeds ("ok"), the transcoder exits with a
\* non-zero code ("fail"), or the call raises ("raise": the move fails, the
\* transcoder cannot be launched)
ToolOutcomes == IF disable_ffmpeg THEN {"ok", "raise"} ELSE {"ok", "fail", "raise"}

\* shutil.move(recorded_filename, processed_filename); a failure raises and
\* leaves the source in place
shutil_move(f, o) ==
    IF o = "ok" /\ f \in recorded
    THEN /\ recorded' = recorded \ {f}
         /\ processed' = processed \cup {f}
         /\ removed' = removed \cup {f}
    ELSE UNCHANGED <<recorded, processed, removed>>

\* subprocess.call of the transcoder, whose exit code is not looked at, then
\* os.remove of the raw file; every exception is caught and logged
ffmpeg_copy_and_fix_errors(f, o) ==
    /\ processed' = IF o = "ok" /\ f \in recorded THEN processed \cup {f} ELSE processed
    /\ IF o # "raise" /\ f \in recorded
       THEN /\ recorded' = recorded \ {f}
            /\ removed' = removed \cup {f}
       ELSE UNCHANGED <<recorded, removed>>

\* process_recorded_file raises to its caller: only the move can
MoveRaises(f, o) == disable_ffmpeg /\ ~(o = "ok" /\ f \in recorded)

\* the capture that writes file f is still running
CaptureRunning(f) == pc \in {"capture", "writing"} /\ recorded_filename = Some(f)

process_recorded_file(who, f, o) ==
    /\ IF disable_ffmpeg THEN shutil_move(f, o) ELSE ffmpeg_copy_and_fix_errors(f, o)
    /\ handed' = handed \cup {<<who, f>>}
    /\ live' = IF CaptureRunning(f) THEN live \cup {<<who, f>>} ELSE live

(* ------------------- capture and hand-over (ONLINE branch) ------------- *)
\* the capture tool creates its output file
CaptureOpen ==
    /\ pc = "capture"
    /\ pc' = "writing"
    /\ recorded' = recorded \cup {recorded_filename[1]}
    /\ UNCHANGED <<status, info, access_token, stream_start_time, recorded_filename, exc,
                   disable_ffmpeg, nameVars, processed, removed, handed, live, sweepVars, histVars>>

\* CaptureExit with a retry: a capture that ended without a file is started
\* again at once
CaptureExit_Respawn ==
    /\ pc \in {"capture", "writing"}
    /\ IF pc = "capture" /\ spawns <= sessionOnline
       THEN /\ pc' = "capture"
            /\ spawns' = spawns + 1
            /\ captures' = captures + 1
            /\ running' = running
       ELSE /\ pc' = "recorded"
            /\ running' = running - 1
            /\ UNCHANGED <<spawns, captures>>
    /\ UNCHANGED <<status, info, access_token, stream_start_time, recorded_filename, exc,
                   disable_ffmpeg, nameVars, fsVars, sweepVars, polls, lastReply, rejected, notes,
                   delivery, refreshes, sessionOnline, slept>>

\* the capture tool exits, with or without having written a file;
\* subprocess.call returns
CaptureExit ==
    /\ pc \in {"capture", "writing"}
    /\ pc' = "recorded"
    /\ running' = running - 1
    /\ UNCHANGED <<status, info, access_token, stream_start_time, recorded_filename, exc,
                   disable_ffmpeg, nameVars, fsVars, sweepVars, polls, lastReply, rejected,
                   notes, delivery, refreshes, captures, spawns, sessionOnline, slept>>

\* recording_done without the os.path.exists test
recording_done_NoExistsCheck ==
    /\ pc = "recorded"
    /\ \E o \in ToolOutcomes :
            /\ process_recorded_file("controller", recorded_filename[1], o)
            /\ IF MoveRaises(recorded_filename[1], o)
               THEN Raise("move") /\ slept' = slept
               ELSE pc' = "check" /\ exc' = exc /\ slept' = refresh
    /\ UNCHANGED <<status, info, access_token, stream_start_time, recorded_filename,
                   disable_ffmpeg, nameVars, sweepVars, polls, lastReply, rejected, notes, delivery,
                   refreshes, captures, running, spawns, sessionOnline>>

\* os.path.exists(recorded_filename), process_recorded_file, sleep(refresh)
recording_done ==
    /\ pc = "recorded"
    /\ IF recorded_filename[1] \in recorded
       THEN \E o \in ToolOutcomes :
                /\ process_recorded_file("controller", recorded_filename[1], o)
                /\ IF MoveRaises(recorded_filename[1], o)
                   THEN Raise("move") /\ slept' = slept
                   ELSE pc' = "check" /\ exc' = exc /\ slept' = refresh
       ELSE /\ pc' = "check"
            /\ exc' = exc
            /\ slept' = refresh
            /\ UNCHANGED fsVars
    /\ UNCHANGED <<status, info, access_token, stream_start_time, recorded_filename,
                   disable_ffmpeg, nameVars, sweepVars, polls, lastReply, rejected, notes, delivery,
                   refreshes, captures, running, spawns, sessionOnline>>

(* --------------------- process_recorded_files (sweep) ------------------ *)
\* the orders in which os.listdir can return the files of S
Listings(S) ==
    {l \in [1..Cardinality(S) -> S] : \A i, j \in 1..Cardinality(S) : l[i] = l[j] => i = j}

\* makedirs of both directories, then the one listdir of the raw directory
process_recorded_files ==
    /\ mpc = "scan"
    /\ \E l \in Listings(recorded) :
        /\ video_list' = l
        /\ mpc' = IF l = <<>> THEN "done" ELSE "loop"
    /\ listed' = recorded
    /\ UNCHANGED <<ctlVars, disable_ffmpeg, nameVars, fsVars, histVars>>

\* one iteration of `for f in video_list`; an exception of
\* process_recorded_file ends the loop in the except clause
process_recorded_files_loop ==
    /\ mpc = "loop"
    /\ \E o \in ToolOutcomes :
        /\ process_recorded_file("sweep", Head(video_list), o)
        /\ IF MoveRaises(Head(video_list), o)
           THEN mpc' = "done" /\ video_list' = video_list
           ELSE /\ video_list' = Tail(video_list)
                /\ mpc' = IF Tail(video_list) = <<>> THEN "done" ELSE "loop"
    /\ listed' = listed
    /\ UNCHANGED <<ctlVars, disable_ffmpeg, nameVars, histVars>>

(* ------------------- file name (ONLINE branch, chars) ------------------ *)
\* " - "
Separator == <<32, 45, 32>>
\* datetime.now().strftime("%y%m%d %Hh%Mm%Ss"), here "261106 10h30m00s"
TimeStamp == <<50, 54, 49, 49, 48, 54, 32, 49, 48, 104, 51, 48, 109, 48, 48, 115>>
\* ".mp4"
Extension == <<46, 109, 112, 52>>

\* the code points of the alphabet for which str.isalnum() is true although
\* they are not ASCII
NonAsciiAlnum == {233, 178}
IsAsciiAlnum(c) == c \in 48..57 \/ c \in 65..90 \/ c \in 97..122
\* x.isalnum()
IsAlnum(c) == IsAsciiAlnum(c) \/ c \in NonAsciiAlnum

\* KeepChar that lets the path separator through as well
KeepChar_Slash(c) == IsAlnum(c) \/ c \in {32, 45, 95, 46, 47}

\* x.isalnum() or x in [" ", "-", "_", "."]
KeepChar(c) == IsAlnum(c) \/ c \in {32, 45, 95, 46}

RECURSIVE DropFirst(_)
\* s without its first character that the filter rejects
DropFirst(s) ==
    IF s = <<>> THEN <<>>
    ELSE IF KeepChar(Head(s)) THEN <<Head(s)>> \o DropFirst(Tail(s))
    ELSE Tail(s)

\* Sanitize that stops after the first character it removed
Sanitize_FirstOnly(s) == DropFirst(s)

\* "".join(x for x in filename if ...)
Sanitize(s) == SelectSeq(s, KeepChar)

\* self.username + " - " + <time> + " - " + channel.get("title") + ".mp4"
BuildFilename(u, t) == u \o Separator \o TimeStamp \o Separator \o t \o Extension

\* the concatenation of lines 114-115
build_filename ==
    /\ fpc = "build"
    /\ fpc' = "built"
    /\ filename' = BuildFilename(username, title)
    /\ UNCHANGED <<ctlVars, disable_ffmpeg, fsVars, sweepVars, histVars,
                   username, title, cleaned, cleaned2>>

\* the character filter of line 118
clean_filename ==
    /\ fpc = "built"
    /\ fpc' = "cleaned"
    /\ cleaned' = Sanitize(filename)
    /\ UNCHANGED <<ctlVars, disable_ffmpeg, fsVars, sweepVars, histVars,
                   username, title, filename, cleaned2>>

\* the character filter applied to its own result
clean_again ==
    /\ fpc = "cleaned"
    /\ fpc' = "twice"
    /\ cleaned2' = Sanitize(cleaned)
    /\ UNCHANGED <<ctlVars, disable_ffmpeg, fsVars, sweepVars, histVars,
                   username, title, filename, cleaned>>

(* ---------------------------- specification ---------------------------- *)
Next ==
    \/ check_user
    \/ check_stream_continuously
    \/ CaptureOpen
    \/ CaptureExit
    \/ recording_done
    \/ process_recorded_files
    \/ process_recorded_files_loop

Spec == Init /\ [][Next]_vars

\* the startup sweep on its own, before the controller thread has issued its
\* first status check
InitSweep ==
    /\ InitRecorder
    /\ recorded \in SUBSET SweepFiles
    /\ NamesOff

NextSweep ==
    \/ process_recorded_files
    \/ process_recorded_files_loop

SpecSweep == InitSweep /\ [][NextSweep]_vars

\* the file name construction for every login and title
InitFilename ==
    /\ InitRecorder
    /\ recorded = {}
    /\ fpc = "build"
    /\ username \in Strings(MaxUserLen)
    /\ title \in Strings(MaxTitleLen)
    /\ filename = <<>>
    /\ cleaned = <<>>
    /\ cleaned2 = <<>>

NextFilename ==
    \/ build_filename
    \/ clean_filename
    \/ clean_again

SpecFilename == InitFilename /\ [][NextFilename]_vars

(* ------------------------------ properties ----------------------------- *)
\* the last status check was answered with HTTP status c
AnsweredHTTP(c) == lastReply.kind = "HTTPError" /\ lastReply.code = c

\* C1: when a status request fails, check_user returns UNAUTHORIZED for a
\* 401 response, NOT_FOUND for a 404 response and ERROR for every other
\* failure.
C1_FailuresClassifiedByCode ==
    (pc = "dispatch" /\ IsRequestException(lastReply)) =>
        status = IF AnsweredHTTP(401) THEN UNAUTHORIZED
                 ELSE IF AnsweredHTTP(404) THEN NOT_FOUND
                 ELSE ERROR

\* C2: a raw file is deleted by post-processing only when its destination
\* has been written successfully.
C2_DeletedOnlyAfterWritten == removed \subseteq processed

\* C3: handling an ERROR status issues exactly one Error notification and
\* ends the controller thread, and once it has ended it issues no status
\* check, capture, refresh or notification any more.
C3_ErrorIsFatal ==
    [][ /\ (pc = "dispatch" /\ status = ERROR /\ pc' # pc) =>
             /\ pc' \in {"exited", "crashed"}
             /\ notes' = Append(notes, "Error")
             /\ polls' = polls /\ captures' = captures /\ refreshes' = refreshes
        /\ (pc \in {"exited", "crashed"}) =>
             UNCHANGED <<pc, polls, captures, refreshes, notes, access_token>> ]_vars

\* the controller exited on the fatal path while a session was open
C3_Witness ==
    /\ pc = "exited"
    /\ status = ERROR
    /\ stream_start_time # None
    /\ notes = <<"Start", "Error">>

\* C4: after a status check answered Unauthorized, the controller refreshes
\* the credential once, sends one Error notification and goes on to the next
\* status check.
C4_UnauthorizedRefreshesAndContinues ==
    [][ (pc = "dispatch" /\ AnsweredHTTP(401) /\ pc' # pc) =>
            /\ pc' = "check"
            /\ refreshes' = refreshes + 1
            /\ notes' = Append(notes, "Error") ]_vars

\* C5: a status check never sends a token that an earlier check saw
\* answered with 401.
C5_RejectedTokenNotReused ==
    [][ polls' = polls + 1 => access_token \notin rejected ]_vars

\* a token was answered with 401 and the controller has finished handling it
C5_Witness ==
    /\ access_token \in rejected
    /\ AnsweredHTTP(401)
    /\ pc \in {"check", "exited"}

\* C6: after the ONLINE branch called process_recorded_file, the controller
\* reaches its sleep and the next status check.
C6_PostProcessingContained ==
    [][ (pc = "recorded" /\ pc' # pc) => (pc' = "check" /\ slept' = refresh) ]_vars

\* where a dispatch goes when its notification is delivered
AfterDelivered(st) ==
    CASE st = ERROR -> "exited"
      [] st = ONLINE -> "capture"
      [] OTHER -> "check"

\* C7: a dispatch whose webhook post fails goes where it goes when the post
\* succeeds.
C7_WebhookFailureHarmless ==
    [][ (pc = "dispatch" /\ Len(notes') > Len(notes) /\ delivery' = "raised") =>
            pc' = AfterDelivered(status) ]_vars

\* file f was written by a capture of this run
CapturedNow(f) == f[1] >= 1

\* C8: the sweep never processes a file of a capture of this run, and no
\* file is processed while its capture is running.
C8_SweepDisjointFromCaptures ==
    /\ \A h \in handed : CapturedNow(h[2]) => h[1] = "controller"
    /\ live = {}

\* C9: at most one capture process is spawned between the creation of a
\* session and its clearing.
C9_OneCapturePerSession == spawns <= 1

\* C9 (amended): a session has at most one capture process per status check
\* that reported it ONLINE.
C9_OneCapturePerOnlinePoll == spawns <= sessionOnline

\* a second capture was spawned in one session
C9_Witness ==
    /\ spawns = 2
    /\ stream_start_time # None
    /\ pc = "capture"

IsStartStop(k) == k \in {"Start", "Stop"}

\* C10: the Start and Stop notifications alternate, beginning with Start.
C10_StartStopAlternate ==
    LET ss == SelectSeq(notes, IsStartStop)
    IN \A i \in 1..Len(ss) : ss[i] = IF i % 2 = 1 THEN "Start" ELSE "Stop"

\* C11: once the controller has taken the fatal path of an ERROR status, the
\* whole process is gone: the sweep runs no transcoder, move or delete any
\* more.
C11_FatalPathStopsSweep ==
    [][ (pc = "exited" /\ status = ERROR) =>
            /\ handed' = handed
            /\ recorded' = recorded
            /\ processed' = processed ]_vars

\* C12: when the sweep has ended, process_recorded_file has been invoked for
\* every file its directory scan returned.
C12_SweepProcessesEveryFile ==
    mpc = "done" => \A f \in listed : <<"sweep", f>> \in handed

\* C13: for a reply with a `data` array check_user returns ONLINE with the
\* parsed body when the array is not empty, and OFFLINE with no info (None)
\* when it is empty.
C13_OfflineWithoutInfo ==
    (pc = "dispatch" /\ lastReply.kind = "json") =>
        IF lastReply.data # <<>>
        THEN status = ONLINE /\ info = Some([data |-> lastReply.data])
        ELSE status = OFFLINE /\ info = None

\* C13 (amended): for a reply with a `data` array check_user returns the
\* parsed body as info, with ONLINE when the array is not empty and OFFLINE
\* when it is empty; the file name of the capture carries the title of the
\* first record.
C13_ClassifiedByData ==
    /\ (pc = "dispatch" /\ lastReply.kind = "json") =>
           /\ info = Some([data |-> lastReply.data])
           /\ status = IF lastReply.data # <<>> THEN ONLINE ELSE OFFLINE
    /\ pc = "capture" => recorded_filename[1][2] = lastReply.data[1]

\* after an OFFLINE poll, a capture was started for a reply of two records
C13_Witness ==
    /\ pc = "capture"
    /\ polls = 2
    /\ notes = <<"Start">>
    /\ Len(lastReply.data) = 2

\* C14: a successful reply whose body lacks `data` makes check_user return
\* ERROR; it does not end the controller thread with an uncaught exception.
C14_MalformedYieldsError ==
    lastReply.kind = "nodata" => (pc # "crashed" /\ status = ERROR)

\* the characters of [A-Za-z0-9 _.-]
AsciiSafe(c) == IsAsciiAlnum(c) \/ c \in {32, 45, 95, 46}

\* C15: the cleaned file name contains only characters of [A-Za-z0-9 _.-].
C15_AsciiOnly ==
    fpc \in {"cleaned", "twice"} => \A i \in 1..Len(cleaned) : AsciiSafe(cleaned[i])

\* C15 (amended): the cleaned file name contains only alphanumeric
\* characters, ASCII or not, and space, hyphen, underscore and dot.
C15_AlnumOrSafe ==
    fpc \in {"cleaned", "twice"} =>
        \A i \in 1..Len(cleaned) : IsAlnum(cleaned[i]) \/ AsciiSafe(cleaned[i])

\* a name was cleaned that lost a character and kept a non-ASCII letter
C15_Witness ==
    /\ fpc = "cleaned"
    /\ Len(cleaned) < Len(filename)
    /\ \E i \in 1..Len(cleaned) : cleaned[i] = 233

\* C16: filtering a cleaned file name again returns it unchanged.
C16_SanitizeIdempotent == fpc = "twice" => cleaned2 = cleaned

\* the filter ran twice on a name from which it had two characters to strip
C16_Witness ==
    /\ fpc = "twice"
    /\ Len(cleaned) + 2 = Len(filename)

\* C17: at most one capture process runs, and while it runs the controller
\* issues no status check, no notification and no further capture.
C17_NothingDuringCapture ==
    [][ /\ running <= 1
        /\ running' <= 1
        /\ running > 0 => (polls' = polls /\ notes' = notes /\ captures' = captures) ]_vars

\* a capture of the second poll is running and writing its file
C17_Witness ==
    /\ running = 1
    /\ pc = "writing"
    /\ polls = 2

\* C18: a Not Found answer is not fatal and changes nothing: no notification,
\* no capture, token and session unchanged, then sleep(refresh) and the next
\* status check.
C18_NotFoundChangesNothing ==
    [][ (pc = "dispatch" /\ AnsweredHTTP(404) /\ pc' # pc) =>
            /\ pc' = "check"
            /\ slept' = refresh
            /\ UNCHANGED <<notes, captures, access_token, stream_start_time>> ]_vars

\* C19: after a capture has exited the controller passes its file to
\* process_recorded_file exactly when the file exists; otherwise it touches
\* no file and goes on to the next poll; no status check comes in between.
C19_HandOverIffFileExists ==
    [][ /\ (pc = "recorded" /\ pc' # pc) =>
             /\ (<<"controller", recorded_filename[1]>> \in handed')
                    <=> (recorded_filename[1] \in recorded)
             /\ (recorded_filename[1] \notin recorded) => (pc' = "check" /\ UNCHANGED fsVars)
        /\ (polls' # polls) => pc = "check" ]_vars

\* the first capture's file was handed over, the second capture left no file
\* and the controller is back at polling
C19_Witness ==
    /\ pc = "check"
    /\ captures = 2
    /\ <<"controller", <<1, "Foo">>>> \in handed
    /\ <<"controller", <<2, "Foo">>>> \notin handed

\* the kind of the last Start or Stop notification
LastStartStop ==
    LET ss == SelectSeq(notes, IsStartStop)
    IN IF ss = <<>> THEN "none" ELSE ss[Len(ss)]

\* C20: at the top of the loop stream_start_time is set exactly when the last
\* Start/Stop notification was a Start; Stop is sent only after a Start; the
\* variable is set only by an ONLINE classification and cleared only by the
\* OFFLINE branch.
C20_SessionMatchesNotifications ==
    /\ [](pc = "check" => ((stream_start_time # None) <=> (LastStartStop = "Start")))
    /\ [][ /\ (notes' = Append(notes, "Stop")) => LastStartStop = "Start"
           /\ (stream_start_time = None /\ stream_start_time' # None)
                  => (pc = "check" /\ status' = ONLINE)
           /\ (stream_start_time # None /\ stream_start_time' = None)
                  => (pc = "dispatch" /\ status = OFFLINE) ]_vars

\* a session was opened and closed again
C20_Witness ==
    /\ pc = "check"
    /\ notes = <<"Start", "Stop">>
    /\ stream_start_time = None

====
